---- MODULE Spec2Model ----
(***************************************************************************)
(* Gate-layout templates of pennylane/templates/layers.py.                 *)
(*                                                                         *)
(* A template call appends gates to the circuit under construction.  The   *)
(* model runs one template call at a time, one loop iteration per step,    *)
(* and records in `queue` the gates the current call has emitted so far.   *)
(* Gate parameters are kept symbolic: a parameter is the name of the       *)
(* argument array it is read from and the index it is read at.             *)
(***************************************************************************)
EXTENDS Integers, Sequences, FiniteSets, TLC

\* ------------------------------------------------------------------ bounds
MaxWires == 4          \* wires of an entangling layer / modes of a mesh: 0..MaxWires
MaxLayers == 2         \* leading dimension of a 3-D weight tensor: 0..MaxLayers
MaxWeights == 2        \* length of a random layer's weight vector: 0..MaxWeights
MaxImprim == 1         \* imprimitive gates recorded for one random layer
MaxRandomWires == 2    \* wires of a random layer: 0..MaxRandomWires
Scale == 3             \* draws and ratio_imprim are multiples of 1/Scale

\* ------------------------------------------------------------------ values
\* A symbolic gate parameter: entry idx of argument array arr.
Param(arr, idx) == [arr |-> arr, idx |-> idx]

\* The literal 0 passed as the phase of a Beamsplitter in the clements convention.
Zero == [arr |-> "literal", idx |-> <<0>>]

\* One queued operation.
Gate(name, params, wires) == [name |-> name, params |-> params, wires |-> wires]

\* Python's len(); sequences are 1-based here and 0-based in the source, so
\* At(s, i) is s[i] of the source.
At(s, i) == s[i + 1]

\* A caller's wires argument: n distinct labels in a given order.  Labels need
\* not be the positions: "plain" is [0, 1, .., n-1], "relabelled" is
\* [10+n-1, .., 11, 10].
Wires(n, labelling) ==
    [p \in 1..n |-> IF labelling = "plain" THEN p - 1 ELSE 10 + (n - p)]

Labellings == {"plain", "relabelled"}

\* The two-qubit gates a caller may pass as `imprimitive` (default CNOT).
Imprimitives == {"CNOT", "CZ"}

\* The default `rotations` palette of RandomLayer.
Rotations == <<"RX", "RY", "RZ">>

\* ranges=None, or a caller-supplied sequence.
NoRanges == [isNone |-> TRUE, val |-> <<>>]
SomeRanges(s) == [isNone |-> FALSE, val |-> s]

\* A static string, or a Variable (a QNode's trainable positional argument).
Static(s) == [kind |-> "static", val |-> s]
Variable(s) == [kind |-> "Variable", val |-> s]
isinstanceVariable(x) == x.kind = "Variable"

\* ----------------------------------------------------------------- state
VARIABLES
    pc,        \* where the running call stands; "idle" before the first call
    template,  \* the template the caller invoked
    args,      \* its arguments
    loc,       \* the locals of the running call
    queue,     \* gates emitted by the current call, in emission order
    err,       \* the exception the call raised, "none" otherwise
    applied,   \* StronglyEntanglingLayer invocations made by the current call
    placed,    \* mesh placements (layer, pair index, parameter index) of the current call
    ref        \* last completed Interferometer run in the 'pennylane' convention
               \* whose other arguments equal the current call's

vars == <<pc, template, args, loc, queue, err, applied, placed, ref>>

NoLoc == [blocks |-> <<>>, b |-> 0, weights |-> <<>>, r |-> 0, i |-> 0,
          w |-> <<>>, N |-> 0, l |-> 0, k |-> 0, n |-> 0]

NoRef == [set |-> FALSE, args |-> <<>>, queue |-> <<>>]

Init ==
    /\ pc = "idle"
    /\ template = "none"
    /\ args = <<>>
    /\ loc = NoLoc
    /\ queue = <<>>
    /\ err = "none"
    /\ applied = <<>>
    /\ placed = <<>>
    /\ ref = NoRef

\* A call that has ended, normally or with an exception.
Returned == {"done", "raised"}

\* No call is running: a caller may start one.
Idle == pc = "idle"

\* raise: the call ends with the exception, nothing more is emitted.
Raise(e) ==
    /\ pc' = "raised"
    /\ err' = e

\* ------------------------------------------------ StronglyEntanglingLayer
\* zip(weights, ranges): pairs up to the shorter of the two.
Min(a, b) == IF a < b THEN a ELSE b

zip(L, ranges) ==
    [p \in 1..Min(L, Len(ranges)) |-> [weights |-> <<p - 1>>, r |-> ranges[p]]]

\* TooFewWires with the threshold one too low.
TooFewWires_One(wires) == Len(wires) < 1

\* len(wires) < 2, the guard of both layers that place two-wire gates.
TooFewWires(wires) == Len(wires) < 2

\* Entry of StronglyEntanglingLayer(weights, r, imprimitive, wires), called
\* with the locals `base` of the caller and the invocations `calls` made so
\* far: the wire count check, then the first loop.
EnterStronglyEntanglingLayer(weights, r, imprimitive, wires, base, calls) ==
    /\ applied' = Append(calls, [weights |-> weights, r |-> r,
                                 imprimitive |-> imprimitive, wires |-> wires])
    /\ IF TooFewWires(wires)
         THEN /\ Raise("ValueError")
              /\ loc' = base
         ELSE /\ pc' = "SEL_rot"
              /\ err' = "none"
              /\ loc' = [base EXCEPT !.weights = weights, !.r = r, !.i = 0]

\* SecondIndex that ignores the range and takes the next wire.
SecondIndex_Next(i, r, num_wires) == (i + 1) % num_wires

\* The index of the second wire of the i-th imprimitive gate.
SecondIndex(i, r, num_wires) == (i + r) % num_wires

\* for i, wire in enumerate(wires): Rot(weights[i, 0..2], wires=wire)
SEL_rot ==
    /\ pc = "SEL_rot"
    /\ IF loc.i < Len(args.wires)
         THEN /\ queue' = Append(queue,
                    Gate("Rot",
                         [j \in 1..3 |-> Param("weights", loc.weights \o <<loc.i, j - 1>>)],
                         <<At(args.wires, loc.i)>>))
              /\ loc' = [loc EXCEPT !.i = @ + 1]
              /\ pc' = pc
         ELSE /\ queue' = queue
              /\ loc' = [loc EXCEPT !.i = 0]
              /\ pc' = "SEL_imp"
    /\ UNCHANGED <<template, args, err, applied, placed, ref>>

\* for i in range(num_wires): imprimitive(wires=[wires[i], wires[(i+r) % num_wires]])
\* and the return, to the caller's loop or to the caller.
SEL_imp ==
    /\ pc = "SEL_imp"
    /\ LET num_wires == Len(args.wires) IN
       IF loc.i < num_wires
         THEN /\ queue' = Append(queue,
                    Gate(args.imprimitive, <<>>,
                         <<At(args.wires, loc.i),
                           At(args.wires, SecondIndex(loc.i, loc.r, num_wires))>>))
              /\ loc' = [loc EXCEPT !.i = @ + 1]
              /\ pc' = pc
         ELSE /\ queue' = queue
              /\ IF template = "StronglyEntanglingLayers"
                   THEN /\ loc' = [loc EXCEPT !.b = @ + 1]
                        /\ pc' = "SELs_for"
                   ELSE /\ loc' = loc
                        /\ pc' = "done"
    /\ UNCHANGED <<template, args, err, applied, placed, ref>>

\* The ranges a caller passes for one layer, and per layer of the wrapper.
LayerRange == (0 - MaxWires)..(2 * MaxWires)
BlockRange == (0 - 1)..2

\* A caller invokes StronglyEntanglingLayer(weights, r, imprimitive, wires).
StronglyEntanglingLayer ==
    /\ Idle
    /\ \E n \in 0..MaxWires, lab \in Labellings, r \in LayerRange, g \in Imprimitives :
         /\ template' = "StronglyEntanglingLayer"
         /\ args' = [wires |-> Wires(n, lab), imprimitive |-> g, r |-> r]
         /\ queue' = <<>>
         /\ placed' = <<>>
         /\ ref' = NoRef
         /\ EnterStronglyEntanglingLayer(<<>>, r, g, Wires(n, lab), NoLoc, <<>>)

\* ----------------------------------------------- StronglyEntanglingLayers
\* All sequences over S of length at most n.
SeqsUpTo(S, n) == UNION {[1..m -> S] : m \in 0..n}

\* A caller invokes StronglyEntanglingLayers(weights, ranges, imprimitive, wires)
\* with len(weights) = L: the default of ranges, then the zip the loop runs over.
StronglyEntanglingLayers ==
    /\ Idle
    /\ \E L \in 0..MaxLayers, n \in 0..MaxWires, lab \in Labellings, g \in Imprimitives,
          rg \in {NoRanges} \cup {SomeRanges(s) : s \in SeqsUpTo(BlockRange, MaxLayers)} :
         /\ template' = "StronglyEntanglingLayers"
         /\ args' = [wires |-> Wires(n, lab), imprimitive |-> g, L |-> L, ranges |-> rg]
         /\ LET ranges == IF rg.isNone THEN [p \in 1..L |-> 1] ELSE rg.val
            IN  loc' = [NoLoc EXCEPT !.blocks = zip(L, ranges), !.b = 0]
         /\ pc' = "SELs_for"
         /\ queue' = <<>>
         /\ err' = "none"
         /\ applied' = <<>>
         /\ placed' = <<>>
         /\ ref' = NoRef

\* for block_weights, block_range in zip(weights, ranges):
\*     StronglyEntanglingLayer(block_weights, r=block_range, imprimitive, wires)
SELs_for ==
    /\ pc = "SELs_for"
    /\ IF loc.b < Len(loc.blocks)
         THEN LET block == At(loc.blocks, loc.b) IN
              EnterStronglyEntanglingLayer(block.weights, block.r, args.imprimitive,
                                           args.wires, loc, applied)
         ELSE /\ pc' = "done"
              /\ UNCHANGED <<loc, err, applied>>
    /\ UNCHANGED <<template, args, queue, placed, ref>>

\* ------------------------------------------------------------ RandomLayer
\* The values np.random.random() returns: u / Scale for u in Draws, in [0, 1).
Draws == 0..(Scale - 1)

\* The values of ratio_imprim: ratio / Scale, between 0 and 1 inclusive.
Ratios == 0..Scale

\* RotationDrawn with the comparison turned round.
RotationDrawn_Flipped(u, ratio_imprim) == u < ratio_imprim

\* if np.random.random() > ratio_imprim
RotationDrawn(u, ratio_imprim) == u > ratio_imprim

\* The elements of a sequence.
Elements(s) == {s[p] : p \in DOMAIN s}

\* np.random.permutation(wires)[:2]: two different wires, in either order.
FirstTwoOfPermutation(wires) ==
    {<<wires[x[1]], wires[x[2]]>> :
        x \in {y \in (DOMAIN wires) \X (DOMAIN wires) : y[1] # y[2]}}

\* The imprimitive gates the current call has emitted.
Imprims(q) == Cardinality({p \in DOMAIN q : Len(q[p].wires) = 2})

\* A caller invokes RandomLayer(weights, ratio_imprim, imprimitive, rotations, wires)
\* with len(weights) = K: the wire count check, then i = 0.
RandomLayer ==
    /\ Idle
    /\ \E K \in 0..MaxWeights, ratio \in Ratios, n \in 0..MaxRandomWires :
         /\ template' = "RandomLayer"
         /\ args' = [wires |-> Wires(n, "plain"), imprimitive |-> "CNOT",
                     rotations |-> Rotations, K |-> K, ratio_imprim |-> ratio]
         /\ queue' = <<>>
         /\ applied' = <<>>
         /\ placed' = <<>>
         /\ ref' = NoRef
         /\ loc' = NoLoc
         /\ IF TooFewWires(Wires(n, "plain"))
              THEN Raise("ValueError")
              ELSE /\ pc' = "RL_while"
                   /\ err' = "none"

\* RL_rotation without i += 1.
RL_rotation_NoAdvance ==
    /\ pc = "RL_while"
    /\ loc.i < args.K
    /\ Len(queue) < MaxWeights + MaxImprim
    /\ \E u \in Draws :
         /\ RotationDrawn(u, args.ratio_imprim)
         /\ \E gate \in Elements(args.rotations), wire \in Elements(args.wires) :
              /\ queue' = Append(queue, Gate(gate, <<Param("weights", <<loc.i>>)>>, <<wire>>))
              /\ loc' = loc
    /\ UNCHANGED <<pc, template, args, err, applied, placed, ref>>

\* One pass of the while loop that draws a rotation: a gate of the palette on
\* a wire, with weights[i], and i += 1.
RL_rotation ==
    /\ pc = "RL_while"
    /\ loc.i < args.K
    /\ \E u \in Draws :
         /\ RotationDrawn(u, args.ratio_imprim)
         /\ \E gate \in Elements(args.rotations), wire \in Elements(args.wires) :
              /\ queue' = Append(queue, Gate(gate, <<Param("weights", <<loc.i>>)>>, <<wire>>))
              /\ loc' = [loc EXCEPT !.i = @ + 1]
    /\ UNCHANGED <<pc, template, args, err, applied, placed, ref>>

\* One pass of the while loop that draws an imprimitive gate: i is left alone.
RL_imprimitive ==
    /\ pc = "RL_while"
    /\ loc.i < args.K
    /\ Imprims(queue) < MaxImprim
    /\ \E u \in Draws :
         /\ ~RotationDrawn(u, args.ratio_imprim)
         /\ \E on_wires \in FirstTwoOfPermutation(args.wires) :
              /\ queue' = Append(queue, Gate(args.imprimitive, <<>>, on_wires))
              /\ loc' = loc
    /\ UNCHANGED <<pc, template, args, err, applied, placed, ref>>

\* while i < len(weights) is false: the layer returns.
RL_exit ==
    /\ pc = "RL_while"
    /\ ~(loc.i < args.K)
    /\ pc' = "done"
    /\ UNCHANGED <<template, args, loc, queue, err, applied, placed, ref>>

NextRandom ==
    \/ RandomLayer
    \/ RL_rotation
    \/ RL_imprimitive
    \/ RL_exit

\* ---------------------------------------------------------- Interferometer
\* The mesh and beamsplitter arguments a caller may pass.
Meshes == {Static("rectangular"), Static("triangular"), Static("square"),
           Variable("rectangular"), Variable("triangular")}

Beamsplitters == {Static("pennylane"), Static("clements"), Variable("clements")}

\* The wires argument: a sequence of modes, or one bare mode.
WiresArgs ==
    {[isSequence |-> TRUE, val |-> Wires(n, lab)] : n \in 0..MaxWires, lab \in Labellings}
        \cup {[isSequence |-> FALSE, val |-> <<5>>]}

\* if not isinstance(wires, Sequence): w = [wires] else: w = wires
AsSequence(wires) == IF wires.isSequence THEN wires.val ELSE <<wires.val[1]>>

\* N(N-1)/2, the documented length of theta and of phi.
NumBeamsplitters(N) == (N * (N - 1)) \div 2

\* The lengths of varphi the documentation allows for N modes.
VarphiLengths(N) == {m \in {N - 1, N} : m >= 0}

abs(x) == IF x < 0 THEN 0 - x ELSE x

\* Element whose clements rotation sits on the second wire of the pair.
Element_SecondWire(beamsplitter, n, w1, w2) ==
    IF beamsplitter = Static("clements")
      THEN <<Gate("Rotation", <<Param("phi", <<n>>)>>, <<w2>>),
             Gate("Beamsplitter", <<Param("theta", <<n>>), Zero>>, <<w1, w2>>)>>
      ELSE <<Gate("Beamsplitter", <<Param("theta", <<n>>), Param("phi", <<n>>)>>, <<w1, w2>>)>>

\* One two-mode element on (w1, w2) with parameter index n, in either convention.
Element(beamsplitter, n, w1, w2) ==
    IF beamsplitter = Static("clements")
      THEN <<Gate("Rotation", <<Param("phi", <<n>>)>>, <<w1>>),
             Gate("Beamsplitter", <<Param("theta", <<n>>), Zero>>, <<w1, w2>>)>>
      ELSE <<Gate("Beamsplitter", <<Param("theta", <<n>>), Param("phi", <<n>>)>>, <<w1, w2>>)>>

\* RectFires whose test no pair fails, so every pair of every layer fires.
RectFires_NoParity(l, k) == (l + k) % 2 # 2

\* if (l+k)%2 != 1: the pairs of the rectangular mesh that layer l fires.
RectFires(l, k) == (l + k) % 2 # 1

\* TriStart with the layer index off by one.
TriStart_OffByOne(l, N) == abs(l - (N - 1))

\* range(abs(l+1-(N-1)), N-1, 2): the first pair of layer l of the triangular mesh.
TriStart(l, N) == abs(l + 1 - (N - 1))

\* Emit the element on (w[k], w[k+1]) with theta[n], phi[n] and n += 1; an
\* index past the end of theta, phi or w raises IndexError.
Place(k) ==
    IF loc.n < args.ntheta /\ k + 1 < loc.N
      THEN /\ queue' = queue \o Element(args.beamsplitter, loc.n, At(loc.w, k), At(loc.w, k + 1))
           /\ placed' = Append(placed, [l |-> loc.l, k |-> k, n |-> loc.n])
           /\ err' = err
      ELSE /\ queue' = queue
           /\ placed' = placed
           /\ err' = "IndexError"

\* A caller invokes Interferometer(theta, phi, varphi, wires, mesh, beamsplitter):
\* the two Variable checks, w and N, the single-mode case, n = 0 and the
\* choice of the mesh.
Interferometer ==
    /\ Idle
    /\ \E wires \in WiresArgs, mesh \in Meshes, beamsplitter \in Beamsplitters :
       \E nvarphi \in VarphiLengths(Len(AsSequence(wires))) :
         LET w == AsSequence(wires)
             N == Len(w)
             a == [wires |-> wires, mesh |-> mesh, beamsplitter |-> beamsplitter,
                   ntheta |-> NumBeamsplitters(N), nvarphi |-> nvarphi]
         IN
         /\ template' = "Interferometer"
         /\ args' = a
         /\ applied' = <<>>
         /\ placed' = <<>>
         /\ ref' = IF ref.set /\ ref.args = [a EXCEPT !.beamsplitter = Static("pennylane")]
                    THEN ref ELSE NoRef
         /\ IF isinstanceVariable(beamsplitter) \/ isinstanceVariable(mesh)
              THEN /\ Raise("QuantumFunctionError")
                   /\ queue' = <<>>
                   /\ loc' = NoLoc
              ELSE
                IF N = 1
                  THEN /\ loc' = [NoLoc EXCEPT !.w = w, !.N = N]
                       /\ IF 0 < nvarphi
                            THEN /\ queue' = <<Gate("Rotation", <<Param("varphi", <<0>>)>>, <<At(w, 0)>>)>>
                                 /\ pc' = "done"
                                 /\ err' = "none"
                            ELSE /\ queue' = <<>>
                                 /\ Raise("IndexError")
                  ELSE /\ queue' = <<>>
                       /\ err' = "none"
                       /\ loc' = [NoLoc EXCEPT !.w = w, !.N = N, !.n = 0]
                       /\ pc' = IF mesh = Static("rectangular") THEN "IF_rect_l"
                                ELSE IF mesh = Static("triangular") THEN "IF_tri_l"
                                ELSE "IF_phase"

\* for l in range(N): the head of the outer loop of the rectangular mesh.
IF_rect_l ==
    /\ pc = "IF_rect_l"
    /\ IF loc.l < loc.N
         THEN /\ loc' = [loc EXCEPT !.k = 0]
              /\ pc' = "IF_rect_k"
         ELSE /\ loc' = [loc EXCEPT !.i = 0]
              /\ pc' = "IF_phase"
    /\ UNCHANGED <<template, args, queue, err, applied, placed, ref>>

\* for k, (w1, w2) in enumerate(zip(w[:-1], w[1:])): one pair of layer l.
IF_rect_k ==
    /\ pc = "IF_rect_k"
    /\ IF loc.k < loc.N - 1
         THEN IF RectFires(loc.l, loc.k)
                THEN /\ Place(loc.k)
                     /\ IF err' = "none"
                          THEN /\ loc' = [loc EXCEPT !.k = @ + 1, !.n = @ + 1]
                               /\ pc' = pc
                          ELSE /\ loc' = loc
                               /\ pc' = "raised"
                ELSE /\ loc' = [loc EXCEPT !.k = @ + 1]
                     /\ UNCHANGED <<pc, queue, placed, err>>
         ELSE /\ loc' = [loc EXCEPT !.l = @ + 1]
              /\ pc' = "IF_rect_l"
              /\ UNCHANGED <<queue, placed, err>>
    /\ UNCHANGED <<template, args, applied, ref>>

\* for l in range(2*N-3): the head of the outer loop of the triangular mesh.
IF_tri_l ==
    /\ pc = "IF_tri_l"
    /\ IF loc.l < 2 * loc.N - 3
         THEN /\ loc' = [loc EXCEPT !.k = TriStart(loc.l, loc.N)]
              /\ pc' = "IF_tri_k"
         ELSE /\ loc' = [loc EXCEPT !.i = 0]
              /\ pc' = "IF_phase"
    /\ UNCHANGED <<template, args, queue, err, applied, placed, ref>>

\* for k in range(abs(l+1-(N-1)), N-1, 2): one pair of layer l.
IF_tri_k ==
    /\ pc = "IF_tri_k"
    /\ IF loc.k < loc.N - 1
         THEN /\ Place(loc.k)
              /\ IF err' = "none"
                   THEN /\ loc' = [loc EXCEPT !.k = @ + 2, !.n = @ + 1]
                        /\ pc' = pc
                   ELSE /\ loc' = loc
                        /\ pc' = "raised"
         ELSE /\ loc' = [loc EXCEPT !.l = @ + 1]
              /\ pc' = "IF_tri_l"
              /\ UNCHANGED <<queue, placed, err>>
    /\ UNCHANGED <<template, args, applied, ref>>

\* for i, p in enumerate(varphi): Rotation(p, wires=[w[i]]), then the return.
IF_phase ==
    /\ pc = "IF_phase"
    /\ IF loc.i < args.nvarphi
         THEN IF loc.i < loc.N
                THEN /\ queue' = Append(queue,
                           Gate("Rotation", <<Param("varphi", <<loc.i>>)>>, <<At(loc.w, loc.i)>>))
                     /\ loc' = [loc EXCEPT !.i = @ + 1]
                     /\ UNCHANGED <<pc, err>>
                ELSE /\ Raise("IndexError")
                     /\ UNCHANGED <<queue, loc>>
         ELSE /\ pc' = "done"
              /\ UNCHANGED <<queue, loc, err>>
    /\ UNCHANGED <<template, args, applied, placed, ref>>

NextInterferometer ==
    \/ Interferometer
    \/ IF_rect_l
    \/ IF_rect_k
    \/ IF_tri_l
    \/ IF_tri_k
    \/ IF_phase

\* ------------------------------------------------------------------ return
\* The caller takes the result; a completed Interferometer run in the
\* 'pennylane' convention is kept for comparison with the next run.
Return ==
    /\ pc \in Returned
    /\ pc' = "idle"
    /\ template' = "none"
    /\ args' = <<>>
    /\ loc' = NoLoc
    /\ queue' = <<>>
    /\ err' = "none"
    /\ applied' = <<>>
    /\ placed' = <<>>
    /\ ref' = IF template = "Interferometer" /\ pc = "done"
                 /\ args.beamsplitter = Static("pennylane")
                THEN [set |-> TRUE, args |-> args, queue |-> queue]
                ELSE ref

NextEntangling ==
    \/ StronglyEntanglingLayer
    \/ SEL_rot
    \/ SEL_imp
    \/ StronglyEntanglingLayers
    \/ SELs_for

Next == NextEntangling \/ NextRandom \/ NextInterferometer \/ Return

Spec == Init /\ [][Next]_vars

\* ------------------------------------------------------------- properties
\* The gates of q that read array arr, in emission order.
Reading(q, arr) ==
    SelectSeq(q, LAMBDA g : \E j \in DOMAIN g.params : g.params[j].arr = arr)

\* The index at which gate g reads array arr.
IndexRead(g, arr) ==
    (CHOOSE x \in {g.params[j] : j \in DOMAIN g.params} : x.arr = arr).idx[1]

\* The Beamsplitter gates of q, in emission order.
Beamsplitters_of(q) == SelectSeq(q, LAMBDA g : g.name = "Beamsplitter")

\* The gates of q on two wires, in emission order.
TwoWire(q) == SelectSeq(q, LAMBDA g : Len(g.wires) = 2)

KnownMeshes == {Static("rectangular"), Static("triangular")}

\* An Interferometer call on N >= 2 modes with a known mesh has passed its checks.
MeshRun ==
    /\ template = "Interferometer"
    /\ loc.N >= 2
    /\ args.mesh \in KnownMeshes

\* C1: Interferometer on N >= 2 wires, for either mesh and either convention,
\* reads theta and phi at 0, 1, 2, .. in emission order (the p-th Beamsplitter
\* reads theta[p-1], the p-th reader of phi reads phi[p-1]), never reads past
\* N(N-1)/2 - 1, and has emitted exactly N(N-1)/2 Beamsplitters when the mesh
\* is complete.
C1_BeamsplitterCount ==
    MeshRun =>
        LET bs == Beamsplitters_of(queue)
            ph == Reading(queue, "phi")
            K == (loc.N * (loc.N - 1)) \div 2
        IN  /\ \A p \in DOMAIN bs : IndexRead(bs[p], "theta") = p - 1
            /\ \A p \in DOMAIN ph : IndexRead(ph[p], "phi") = p - 1
            /\ Len(bs) = loc.n
            /\ Len(ph) = loc.n
            /\ Len(bs) <= K
            /\ err # "IndexError"
            /\ pc # "raised"
            /\ pc \in {"IF_phase", "done"} => Len(bs) = K

\* C1's case: a triangular mesh on 4 modes in the clements convention is complete.
C1_Witness ==
    /\ MeshRun
    /\ pc = "done"
    /\ loc.N = 4
    /\ args.mesh = Static("triangular")
    /\ args.beamsplitter = Static("clements")
    /\ Len(Beamsplitters_of(queue)) = 6

\* C2: an Interferometer call whose mesh is a static value other than
\* 'rectangular' and 'triangular' never returns normally, whatever the wires.
C2_UnknownMeshRaises ==
    (/\ template = "Interferometer"
     /\ args.mesh.kind = "static"
     /\ args.mesh \notin KnownMeshes
     /\ args.beamsplitter.kind = "static")
        => pc # "done"

\* C3: when StronglyEntanglingLayers on wires >= 2 returns, it has invoked
\* StronglyEntanglingLayer once per row of weights, in row order, the l-th with
\* ranges[l] (1 when ranges is None) and always with the caller's imprimitive.
C3_OneLayerPerRow ==
    (template = "StronglyEntanglingLayers" /\ Len(args.wires) >= 2 /\ pc = "done") =>
        /\ Len(applied) = args.L
        /\ \A p \in DOMAIN applied :
             /\ applied[p].weights = <<p - 1>>
             /\ applied[p].imprimitive = args.imprimitive
             /\ applied[p].r = IF args.ranges.isNone THEN 1 ELSE args.ranges.val[p]

\* C4: every imprimitive gate of an entangling layer on n >= 2 wires acts on
\* two different wires, for every integer range r.
C4_DistinctOperands ==
    (template \in {"StronglyEntanglingLayer", "StronglyEntanglingLayers"}
        /\ Len(args.wires) >= 2) =>
        \A p \in DOMAIN queue :
            Len(queue[p].wires) = 2 => queue[p].wires[1] # queue[p].wires[2]

\* C5: RandomLayer on wires >= 2 with ratio_imprim = 0 emits no imprimitive
\* gate, whatever is drawn, and has emitted exactly K rotations when it returns.
C5_RatioZeroOnlyRotations ==
    (template = "RandomLayer" /\ Len(args.wires) >= 2 /\ args.ratio_imprim = 0) =>
        /\ TwoWire(queue) = <<>>
        /\ pc = "done" => Len(queue) = args.K

\* ------------------------------------------------ RandomLayer, fair draws
\* The loop keeps running, and a draw that stays possible is eventually taken.
FairSpec == Spec /\ WF_vars(RL_rotation) /\ WF_vars(RL_exit)

RandomRun == template = "RandomLayer" /\ Len(args.wires) >= 2

\* Some value of the random draw exceeds ratio_imprim.
RotationPossible == \E u \in Draws : u > args.ratio_imprim

\* The rotation the loop emits when it reads weights[j].
IsRotationOf(g, j) ==
    /\ g.params = <<Param("weights", <<j>>)>>
    /\ Len(g.wires) = 1
    /\ g.wires[1] \in Elements(args.wires)
    /\ g.name \in Elements(args.rotations)

\* One step of a RandomLayer run: i never decreases; a step that emits a
\* single-wire gate emits the rotation of weights[i] and advances i by one; a
\* step that emits anything else leaves i alone.
RandomStep ==
    (RandomRun /\ pc = "RL_while" /\ template' = "RandomLayer") =>
        /\ loc'.i >= loc.i
        /\ \/ /\ loc'.i = loc.i + 1
              /\ Len(queue') = Len(queue) + 1
              /\ IsRotationOf(queue'[Len(queue')], loc.i)
           \/ /\ loc'.i = loc.i
              /\ \/ queue' = queue
                 \/ /\ Len(queue') = Len(queue) + 1
                    /\ Len(queue'[Len(queue')].wires) = 2

\* C6: RandomLayer on wires >= 2 whose ratio_imprim some draw exceeds returns,
\* under fair draws; i never decreases and only a rotation advances it; on
\* return the rotations emitted are exactly those of weights[0..K-1], in order.
C6_RandomLayerTerminates ==
    /\ [][RandomStep]_vars
    /\ [](RandomRun /\ pc = "done" =>
            LET rot == Reading(queue, "weights") IN
            /\ Len(rot) = args.K
            /\ \A p \in DOMAIN rot : IsRotationOf(rot[p], p - 1))
    /\ (RandomRun /\ pc = "RL_while" /\ args.ratio_imprim < Scale /\ RotationPossible)
           ~> (RandomRun /\ pc = "done")

\* C6's case: a layer of two weights has returned after an imprimitive draw.
C6_Witness ==
    /\ RandomRun
    /\ pc = "done"
    /\ args.K = 2
    /\ args.ratio_imprim > 0
    /\ Len(TwoWire(queue)) >= 1
    /\ Len(queue) = 3

\* C7: RandomLayer on wires >= 2 with weights and ratio_imprim = 1 stays in its
\* loop: it has not returned, i is 0 and every gate emitted is an imprimitive.
C7_RatioOneNeverReturns ==
    (RandomRun /\ args.K > 0 /\ args.ratio_imprim = Scale) =>
        /\ pc = "RL_while"
        /\ loc.i = 0
        /\ \A p \in DOMAIN queue :
             Len(queue[p].wires) = 2 /\ queue[p].name = args.imprimitive

\* C7's case: the loop has gone round with ratio_imprim = 1 and emitted an imprimitive.
C7_Witness ==
    /\ RandomRun
    /\ args.K > 0
    /\ args.ratio_imprim = Scale
    /\ pc = "RL_while"
    /\ Len(queue) >= 1

\* C8: a call that meets one of the error conditions (an entangling or random
\* layer on fewer than 2 wires, an Interferometer whose mesh or beamsplitter
\* is a Variable) has raised its error, and a call that raised one of these
\* errors has emitted no gate.
C8_ErrorsBeforeGates ==
    /\ (pc = "raised" /\ err \in {"ValueError", "QuantumFunctionError"}) => queue = <<>>
    /\ (template \in {"StronglyEntanglingLayer", "StronglyEntanglingLayers"}
            /\ applied # <<>> /\ Len(args.wires) < 2)
         => (pc = "raised" /\ err = "ValueError")
    /\ (template = "RandomLayer" /\ Len(args.wires) < 2)
         => (pc = "raised" /\ err = "ValueError")
    /\ (template = "Interferometer"
            /\ (args.mesh.kind = "Variable" \/ args.beamsplitter.kind = "Variable"))
         => (pc = "raised" /\ err = "QuantumFunctionError")

\* C8's case: Interferometer on 4 modes with a Variable mesh and the clements
\* convention has raised.
C8_Witness ==
    /\ template = "Interferometer"
    /\ pc = "raised"
    /\ args.mesh = Variable("triangular")
    /\ args.beamsplitter = Static("clements")
    /\ Len(AsSequence(args.wires)) = 4

\* C9: the gates of each entangling layer on n >= 2 wires are n Rot gates, the
\* i-th on wires[i] with row i of the layer's weights, then n imprimitive
\* gates, the i-th on (wires[i], wires[(i+r) mod n]); a finished layer has
\* emitted exactly 2n gates.  On wires 0..3 with r = 1 the pairs are
\* (0,1), (1,2), (2,3), (3,0).
C9_LayerShape ==
    (template \in {"StronglyEntanglingLayer", "StronglyEntanglingLayers"}
        /\ Len(args.wires) >= 2) =>
        LET n == Len(args.wires) IN
        /\ \A p \in DOMAIN queue :
             LET layer == (p - 1) \div (2 * n)
                 pos == (p - 1) % (2 * n)
             IN  /\ layer < Len(applied)
                 /\ IF pos < n
                      THEN queue[p] =
                             Gate("Rot",
                                  <<Param("weights", applied[layer + 1].weights \o <<pos, 0>>),
                                    Param("weights", applied[layer + 1].weights \o <<pos, 1>>),
                                    Param("weights", applied[layer + 1].weights \o <<pos, 2>>)>>,
                                  <<args.wires[pos + 1]>>)
                      ELSE queue[p] =
                             Gate(args.imprimitive, <<>>,
                                  <<args.wires[(pos - n) + 1],
                                    args.wires[((pos - n + applied[layer + 1].r) % n) + 1]>>)
        /\ pc = "SEL_rot" => Len(queue) = 2 * n * (Len(applied) - 1) + loc.i
        /\ pc = "SEL_imp" => Len(queue) = 2 * n * (Len(applied) - 1) + n + loc.i
        /\ pc \in {"SELs_for", "done"} => Len(queue) = 2 * n * Len(applied)
        /\ (template = "StronglyEntanglingLayer" /\ pc = "done")
              => (Len(applied) = 1 /\ applied[1].r = args.r)
        /\ (template = "StronglyEntanglingLayer" /\ pc = "done"
                /\ args.wires = <<0, 1, 2, 3>> /\ args.r = 1)
              => [p \in 1..4 |-> queue[4 + p].wires]
                    = << <<0, 1>>, <<1, 2>>, <<2, 3>>, <<3, 0>> >>

\* C9's case: a layer on 4 relabelled wires with range 3 has finished.
C9_Witness ==
    /\ template = "StronglyEntanglingLayer"
    /\ pc = "done"
    /\ args.wires = Wires(4, "relabelled")
    /\ args.r = 3
    /\ Len(queue) = 8

\* The clements form of a gate of a run in the 'pennylane' convention.
Expand(g) ==
    IF g.name = "Beamsplitter"
      THEN <<Gate("Rotation", <<g.params[2]>>, <<g.wires[1]>>),
             Gate("Beamsplitter", <<g.params[1], Zero>>, g.wires)>>
      ELSE <<g>>

RECURSIVE ClementsOf(_)
ClementsOf(q) == IF q = <<>> THEN <<>> ELSE Expand(Head(q)) \o ClementsOf(Tail(q))

\* C10: a completed Interferometer run in the clements convention emits what
\* the run with the same wires, mesh and varphi in the 'pennylane' convention
\* emitted, except that each Beamsplitter(theta[n], phi[n]) on (a, b) is
\* Rotation(phi[n]) on a followed at once by Beamsplitter(theta[n], 0) on (a, b).
C10_ClementsSameElements ==
    (/\ template = "Interferometer"
     /\ pc = "done"
     /\ args.beamsplitter = Static("clements")
     /\ ref.set)
        => /\ queue = ClementsOf(ref.queue)
           /\ [p \in DOMAIN Beamsplitters_of(queue) |->
                  <<Beamsplitters_of(queue)[p].wires, Beamsplitters_of(queue)[p].params[1]>>]
              = [p \in DOMAIN Beamsplitters_of(ref.queue) |->
                  <<Beamsplitters_of(ref.queue)[p].wires,
                    Beamsplitters_of(ref.queue)[p].params[1]>>]

\* C10's case: a rectangular mesh on 4 modes has run in both conventions.
C10_Witness ==
    /\ template = "Interferometer"
    /\ pc = "done"
    /\ args.beamsplitter = Static("clements")
    /\ args.mesh = Static("rectangular")
    /\ ref.set
    /\ loc.N = 4
    /\ Len(Beamsplitters_of(ref.queue)) = 6
    /\ Len(queue) = Len(ref.queue) + 6

\* The number of layers of the mesh on N modes.
MeshDepth(mesh, N) == IF mesh = Static("rectangular") THEN N ELSE 2 * N - 3

\* C11: in an Interferometer mesh on N >= 2 modes every two-mode element lies
\* in a layer l of the mesh (0 <= l < N for 'rectangular', 0 <= l < 2N-3 for
\* 'triangular') and acts on an adjacent pair (w[k], w[k+1]), 0 <= k <= N-2;
\* two elements of the same layer share no wire.
C11_LayersAdjacentDisjoint ==
    MeshRun =>
        LET bs == Beamsplitters_of(queue) IN
        /\ Len(placed) = Len(bs)
        /\ \A p \in DOMAIN placed :
             /\ placed[p].l \in 0..(MeshDepth(args.mesh, loc.N) - 1)
             /\ placed[p].k \in 0..(loc.N - 2)
             /\ bs[p].wires = <<loc.w[placed[p].k + 1], loc.w[placed[p].k + 2]>>
        /\ \A p, q \in DOMAIN placed :
             (p # q /\ placed[p].l = placed[q].l) =>
                 {bs[p].wires[1], bs[p].wires[2]} \cap {bs[q].wires[1], bs[q].wires[2]} = {}

\* C11's case: a rectangular mesh on 4 relabelled modes is complete; its first
\* layer holds two elements and its last layer is layer 3.
C11_Witness ==
    /\ MeshRun
    /\ pc = "done"
    /\ loc.N = 4
    /\ loc.w = Wires(4, "relabelled")
    /\ args.mesh = Static("rectangular")
    /\ Len(placed) = 6
    /\ placed[1].l = 0
    /\ placed[2].l = 0
    /\ placed[6].l = 3

====
